---- MODULE Spec2Model ----
(***************************************************************************)
(* Fund intraday change estimator: the code classifier, the quote fetcher, *)
(* the holdings resolver, the estimation engine and its two entry points   *)
(* (HTTP handler do_GET, CLI main).                                        *)
(*                                                                         *)
(* Strings are sequences of one-character strings.  Decimal numbers are    *)
(* fixed point: prices, ratios and percentages count tenths (30.0 is 300), *)
(* weighted changes count 1/10000 (ratio * change_percent / 100 of two     *)
(* tenths is their product in 1/10000).                                    *)
(***************************************************************************)
EXTENDS Integers, Sequences, FiniteSets, TLC

\* ------------------------------------------------------------------ bounds
\* longest free-form identifier body drawn for the classifier
MaxBody == 2
\* longest all-digit identifier body drawn for the classifier
MaxDigits == 6

\* ------------------------------------------------------- program constants
\* len(code) == 5: a 5-digit identifier is a Hong Kong code
HKDigits == 5
\* len(code) == 6: a 6-digit identifier is an A-share code
ADigits == 6
\* zfill(5): Hong Kong symbols are padded to 5 characters
HKWidth == 5
\* len(info) < 4: fewest fields of an A-share payload
MinFieldsA == 4
\* len(info) < 7: fewest fields of a Hong Kong or US payload
MinFieldsHKUS == 7

\* -------------------------------------------------------------- characters
\* "FF11" stands for one character, the fullwidth digit one (U+FF11): a
\* decimal digit for str.isdigit that is not an ASCII digit.
AsciiDigits == {"0", "1", "2", "3", "4", "5", "6", "7", "8", "9"}
UnicodeDigits == {"FF11"}
LowerLetters == {"a", "h", "k", "s", "u", "z"}
UpperLetters == {"A", "H", "K", "S", "U", "Z"}
Whitespace == {" "}
Signs == {"+", "-"}

\* str.upper() on one character
UpperChar(c) ==
    CASE c = "a" -> "A"
      [] c = "h" -> "H"
      [] c = "k" -> "K"
      [] c = "s" -> "S"
      [] c = "u" -> "U"
      [] c = "z" -> "Z"
      [] OTHER -> c

\* str.upper()
upper(s) == [i \in 1..Len(s) |-> UpperChar(s[i])]

\* str.strip(): drop leading and trailing whitespace
RECURSIVE lstrip(_)
lstrip(s) ==
    IF s # <<>> /\ Head(s) \in Whitespace THEN lstrip(Tail(s)) ELSE s

RECURSIVE rstrip(_)
rstrip(s) ==
    IF s # <<>> /\ s[Len(s)] \in Whitespace
    THEN rstrip(SubSeq(s, 1, Len(s) - 1))
    ELSE s

strip(s) == rstrip(lstrip(s))

\* str.isdigit(): non-empty and every character a decimal digit (any script)
isdigit(s) ==
    s # <<>> /\ \A i \in 1..Len(s) : s[i] \in AsciiDigits \cup UnicodeDigits

\* str.isalpha() on one character
isalpha(c) == c \in LowerLetters \cup UpperLetters

\* str.startswith(p)
startswith(s, p) == Len(s) >= Len(p) /\ SubSeq(s, 1, Len(p)) = p

\* s[n:]
DropFirst(s, n) == SubSeq(s, n + 1, Len(s))

Zeros(n) == [i \in 1..n |-> "0"]

\* str.zfill(w): zeros are inserted after a leading sign
zfill(s, w) ==
    IF Len(s) >= w THEN s
    ELSE IF s # <<>> /\ Head(s) \in Signs
         THEN <<Head(s)>> \o Zeros(w - Len(s)) \o Tail(s)
         ELSE Zeros(w - Len(s)) \o s

\* ---------------------------------------------------------- code classifier
\* what a call produced: a (market, symbol) pair, or the exception it raised
Pair(m, sym) == [raised |-> "none", market |-> m, symbol |-> sym]
Raised(e) == [raised |-> e, market |-> "", symbol |-> <<>>]

\* a plausible slip: the Hong Kong symbol is returned unpadded
hk_symbol_unpadded(rest) == rest

\* code[2:].zfill(5) / code.zfill(5): the symbol of a Hong Kong identifier
hk_symbol(rest) == zfill(rest, HKWidth)

\* a plausible slip: every 6-digit identifier goes to Shenzhen
a_share_market_all_sz(code) == "SZ"

\* the market of a 6-digit identifier
a_share_market(code) == IF startswith(code, <<"6">>) THEN "SH" ELSE "SZ"

\* parse_stock_code on the stripped, upper-cased identifier
parse_normalized(code) ==
    IF startswith(code, <<"H", "K">>) THEN Pair("HK", hk_symbol(DropFirst(code, 2)))
    ELSE IF startswith(code, <<"U", "S">>) THEN Pair("US", DropFirst(code, 2))
    ELSE IF startswith(code, <<"S", "H">>) THEN Pair("SH", DropFirst(code, 2))
    ELSE IF startswith(code, <<"S", "Z">>) THEN Pair("SZ", DropFirst(code, 2))
    ELSE IF isdigit(code) /\ Len(code) = HKDigits THEN Pair("HK", hk_symbol(code))
    ELSE IF isdigit(code) /\ Len(code) = ADigits THEN Pair(a_share_market(code), code)
    \* code[0] on the empty string
    ELSE IF code = <<>> THEN Raised("IndexError")
    ELSE IF isalpha(code[1]) THEN Pair("US", code)
    ELSE Pair("UNKNOWN", code)

parse_stock_code(code) == parse_normalized(upper(strip(code)))

\* ------------------------------------------------------------ quote fetcher
\* One upstream answer to a quote request.  exc: the transport raised;
\* marker: the text holds 'FAILED' or '=""'; quoted: the text holds a double
\* quote, so that data.split('"')[1] exists; info: the comma-separated fields
\* between the quotes.  A field is empty, a decimal number (in tenths) or text
\* that float() rejects.
Num(n) == [t |-> "num", v |-> n]
EmptyField == [t |-> "empty", v |-> 0]
TextField == [t |-> "text", v |-> 0]

\* info[k], counting from 0 as the code does
Field(info, k) == info[k + 1]

\* float(info[k]) if info[k] else 0
FloatOrZero(info, k) == IF Field(info, k).t = "num" THEN Field(info, k).v ELSE 0

\* float() raises ValueError on some field among ks
FloatRaises(info, ks) == \E k \in ks : Field(info, k).t = "text"

Error(msg) == [kind |-> "error", error |-> msg]
Raise(e) == [kind |-> "raise", error |-> e]

\* a plausible slip: the raw change is returned when there is no close
ChangePercentRawChange(change, yesterday_close) ==
    IF yesterday_close > 0 THEN (change * 1000) \div yesterday_close ELSE change

\* (change / yesterday_close * 100) if yesterday_close > 0 else 0, in tenths
ChangePercent(change, yesterday_close) ==
    IF yesterday_close > 0 THEN (change * 1000) \div yesterday_close ELSE 0

Quote(code, name, market, cur, yc, op, chg, pct) ==
    [kind |-> "quote", code |-> code, name |-> name, market |-> market,
     current_price |-> cur, yesterday_close |-> yc, open_price |-> op,
     change |-> chg, change_percent |-> pct]

\* the checks every fetcher makes before it reads the fields; "ok" lets it go on
Precheck(resp, minFields, ks) ==
    IF resp.exc THEN "request_failed"
    ELSE IF resp.marker THEN "fetch_failed"
    ELSE IF ~resp.quoted THEN "request_failed"
    ELSE IF Len(resp.info) < minFields THEN "parse_failed"
    ELSE IF FloatRaises(resp.info, ks) THEN "request_failed"
    ELSE "ok"

\* the market label of an A-share quote: api/index.py labels ETF codes
AMarketLabel(impl, code) ==
    IF impl = "api" /\ (startswith(code, <<"5", "1">>) \/ startswith(code, <<"5", "6">>)
                        \/ startswith(code, <<"1", "5">>) \/ startswith(code, <<"1", "5", "9">>))
    THEN "ETF" ELSE "A"

_get_a_stock(full_code, resp, impl) ==
    LET pre == Precheck(resp, MinFieldsA, {1, 2, 3})
        info == resp.info
        open_price == FloatOrZero(info, 1)
        yesterday_close == FloatOrZero(info, 2)
        current_price == FloatOrZero(info, 3)
        change == current_price - yesterday_close
    IN  IF pre # "ok" THEN Error(pre)
        ELSE Quote(DropFirst(full_code, 2), Field(info, 0),
                   AMarketLabel(impl, DropFirst(full_code, 2)),
                   current_price, yesterday_close, open_price, change,
                   ChangePercent(change, yesterday_close))

_get_hk_stock(symbol, resp) ==
    LET pre == Precheck(resp, MinFieldsHKUS, {2, 3, 6})
        info == resp.info
        open_price == FloatOrZero(info, 2)
        yesterday_close == FloatOrZero(info, 3)
        current_price == FloatOrZero(info, 6)
        change == current_price - yesterday_close
    IN  IF pre # "ok" THEN Error(pre)
        ELSE Quote(zfill(symbol, HKWidth), Field(info, 1), "HK",
                   current_price, yesterday_close, open_price, change,
                   ChangePercent(change, yesterday_close))

_get_us_stock(symbol, resp) ==
    LET pre == Precheck(resp, MinFieldsHKUS, {1, 2, 3, 5, 6})
        info == resp.info
    IN  IF pre # "ok" THEN Error(pre)
        ELSE Quote(upper(symbol), Field(info, 0), "US",
                   FloatOrZero(info, 1), FloatOrZero(info, 5), FloatOrZero(info, 6),
                   FloatOrZero(info, 2), FloatOrZero(info, 3))

\* market.lower() of 'SH' / 'SZ'
LowerMarket(m) == IF m = "SH" THEN <<"s", "h">> ELSE <<"s", "z">>

\* get_stock_realtime(code) when the upstream answers resp
get_stock_realtime(code, resp, impl) ==
    LET p == parse_stock_code(code)
    IN  IF p.raised # "none" THEN Raise(p.raised)
        ELSE IF p.market = "HK" THEN _get_hk_stock(p.symbol, resp)
        ELSE IF p.market = "US" THEN _get_us_stock(p.symbol, resp)
        ELSE IF p.market \in {"SH", "SZ"}
             THEN _get_a_stock(LowerMarket(p.market) \o p.symbol, resp, impl)
        ELSE Error("unrecognized")

\* whether get_stock_realtime(code) sends a request upstream
SendsRequest(code) ==
    LET p == parse_stock_code(code)
    IN  p.raised = "none" /\ p.market \in {"HK", "US", "SH", "SZ"}

\* ------------------------------------------------ inputs of the quote fetcher
SeqsOfLen(S, n) == [1..n -> S]
SeqsUpTo(S, n) == UNION {SeqsOfLen(S, k) : k \in 0..n}

Prefixes ==
    {<<>>, <<"h", "k">>, <<"H", "K">>, <<"u", "s">>, <<"U", "S">>,
     <<"s", "h">>, <<"S", "H">>, <<"s", "z">>, <<"S", "Z">>}
Leads == {<<>>, <<" ">>}
FreeAlphabet == {"0", "6", "a", "A", "-", " ", "FF11"}
DigitAlphabet == {"0", "6"}

\* identifier bodies: every short string, every longer all-digit string, and
\* the 5- and 6-character strings of non-ASCII digits
Bodies ==
    SeqsUpTo(FreeAlphabet, MaxBody)
    \cup UNION {SeqsOfLen(DigitAlphabet, k) : k \in 3..MaxDigits}
    \cup {[i \in 1..HKDigits |-> "FF11"], [i \in 1..ADigits |-> "FF11"]}

Codes == {l \o p \o b : l \in Leads, p \in Prefixes, b \in Bodies}

Resp(exc, marker, quoted, info) ==
    [exc |-> exc, marker |-> marker, quoted |-> quoted, info |-> info]

FieldValues == {EmptyField, TextField, Num(0), Num(100), Num(200)}

\* payloads <<name, b, c, d, name, b, c>> and their first four fields
Infos ==
    {<<TextField, b, c, d, TextField, b, c>> : b \in FieldValues, c \in FieldValues, d \in FieldValues}
    \cup {<<TextField, b, c, d>> : b \in FieldValues, c \in FieldValues, d \in FieldValues}
    \cup {<<TextField>>}

RespException == Resp(TRUE, FALSE, FALSE, <<TextField>>)
RespMarker == Resp(FALSE, TRUE, TRUE, <<TextField>>)
RespNoQuote == Resp(FALSE, FALSE, FALSE, <<TextField>>)
\* a payload that reads as +2.0% in the A-share layout (close 100.0, price
\* 102.0) and as +5.0% in the Hong Kong layout (close 102.0, price 107.1)
RespUp == Resp(FALSE, FALSE, TRUE,
               <<TextField, Num(1000), Num(1000), Num(1020), TextField, Num(1000), Num(1071)>>)
\* a payload that reads as -1.0% (A-share: close 100.0, price 99.0) and as
\* -10.0% (Hong Kong: close 99.0, price 89.1)
RespDown == Resp(FALSE, FALSE, TRUE,
                 <<TextField, Num(1000), Num(1000), Num(990), TextField, Num(1000), Num(891)>>)
\* an A-share payload that reads as +1.2% (close 100.0, price 101.2)
RespEtfUp == Resp(FALSE, FALSE, TRUE,
                  <<TextField, Num(1000), Num(1000), Num(1012)>>)

Responses ==
    {RespException, RespMarker, RespNoQuote} \cup {Resp(FALSE, FALSE, TRUE, info) : info \in Infos}

\* one identifier per route of get_stock_realtime
RouteCodes ==
    {<<>>, <<" ">>, <<"-">>, <<"6", "0", "0", "5", "1", "9">>,
     <<"s", "z", "0", "0", "0", "0", "0", "1">>, <<"5", "1", "0", "0", "5", "0">>,
     <<"h", "k", "6">>, <<"0", "0", "6", "0", "0">>, <<"u", "s", "a">>, <<"a">>}

Impls == {"stock_api", "api"}

\* ---------------------------------------------------------- holdings resolver
\* Python's None where a string is expected; "" and None are both falsy
None == <<"None">>
Truthy(s) == s # None /\ s # <<>>

\* get_etf_from_link_fund when the mobile API answers link: exc, the request
\* or response.json() raised; success, the 'Success' flag; etf_code, etf_name,
\* Datas.ETFCODE and Datas.ETFSHORTNAME
get_etf_from_link_fund(fund_code, link) ==
    IF link.exc THEN Error("etf_lookup_failed")
    ELSE IF ~link.success THEN Error("etf_query_failed")
    ELSE IF ~Truthy(link.etf_code) THEN Error("not_a_feeder")
    ELSE [kind |-> "etf", fund_code |-> fund_code,
          etf_code |-> link.etf_code, etf_name |-> link.etf_name]

\* get_fund_info when the overview page answers over (exc, the request raised;
\* title, the <title> was found; name, the text before '('; name_marker and
\* head_marker, 'ETF联接' occurs in the name / in the first 5000 characters)
\* and the mobile API would answer link
get_fund_info(fund_code, over, link) ==
    IF over.exc
    THEN [fund_code |-> fund_code, fund_name |-> "unknown_fund",
          is_etf_feeder |-> FALSE, etf_code |-> None, etf_name |-> None]
    ELSE LET fund_name == IF over.title THEN over.name ELSE "unknown_fund"
             is_etf_feeder == (over.title /\ over.name_marker) \/ over.head_marker
             etf_info == get_etf_from_link_fund(fund_code, link)
             found == is_etf_feeder /\ etf_info.kind # "error"
         IN  [fund_code |-> fund_code, fund_name |-> fund_name,
              is_etf_feeder |-> is_etf_feeder,
              etf_code |-> IF found THEN etf_info.etf_code ELSE None,
              etf_name |-> IF found THEN etf_info.etf_name ELSE None]

\* whether get_fund_info asks the mobile API at all
AsksLinkage(over) == ~over.exc /\ ((over.title /\ over.name_marker) \/ over.head_marker)

\* topline = 100 if top <= 0 else top
Topline(top) == IF top <= 0 THEN 100 ELSE top

\* the rows kept: top <= 0 or rank <= top
KeepRow(top, row) == top <= 0 \/ row.rank <= top

\* get_fund_holdings when the archive page answers page: exc, the request
\* raised; has_content, the text holds 'content'; data_match, content:"..."
\* was found; title and quarter, the name and the quarter label were found;
\* rows, the matches of the row pattern in the first quarter's block
get_fund_holdings(fund_code, top, page) ==
    IF page.exc THEN Error("holdings_request_failed")
    ELSE IF ~page.has_content THEN Error("no_fund_data")
    ELSE IF ~page.data_match THEN Error("holdings_parse_failed")
    ELSE LET holdings == SelectSeq(page.rows, LAMBDA row : KeepRow(top, row))
         IN  IF holdings = <<>> THEN Error("no_holdings_found")
             ELSE [kind |-> "holdings", fund_code |-> fund_code,
                   fund_name |-> IF page.title THEN "archive_name" ELSE "unknown_fund",
                   quarter |-> IF page.quarter THEN "quarter_label" ELSE "unknown_quarter",
                   holdings |-> holdings]

\* --------------------------------------------------------- estimation engine
\* 'total_ratio': 95.0 and 'ratio': 95.0 of the feeder result, in tenths
FeederRatio == 950
\* etf_info['change_percent'] * 0.95: tenths to 1/10000
FeederWeight == 950
\* total_holding_ratio < 5, in tenths
MinCoverage == 50

\* a plausible slip: only 5-digit codes are taken for Hong Kong
guess_market_by_length(stock_code, stock_name) ==
    IF Len(stock_code) = 5 THEN <<"h", "k">> \o stock_code
    ELSE IF Len(stock_code) = 6
         THEN IF startswith(stock_code, <<"6">>) THEN <<"s", "h">> \o stock_code
              ELSE <<"s", "z">> \o stock_code
    ELSE stock_code

guess_market(stock_code, stock_name) ==
    IF Len(stock_code) = 5 THEN <<"h", "k">> \o stock_code
    ELSE IF Len(stock_code) = 6
         THEN IF /\ startswith(stock_code, <<"0", "0">>)
                 /\ ~startswith(stock_code, <<"0", "0", "0">>)
                 /\ ~startswith(stock_code, <<"0", "0", "2">>)
                 /\ ~startswith(stock_code, <<"0", "0", "3">>)
              THEN <<"h", "k">> \o stock_code
              ELSE IF startswith(stock_code, <<"6">>) THEN <<"s", "h">> \o stock_code
              ELSE <<"s", "z">> \o stock_code
    ELSE stock_code

\* a plausible slip: the manual override is not consulted for the ETF code
ChooseEtfCodeDetectedOnly(manual, info) == info.etf_code

\* manual_etf or fund_info.get('etf_code')
ChooseEtfCode(manual, info) == IF Truthy(manual) THEN manual ELSE info.etf_code

\* a plausible slip: the feeder test forgets the manual override
IsFeederCaseDetectedOnly(manual, info) ==
    info.is_etf_feeder /\ Truthy(ChooseEtfCode(manual, info))

\* (fund_info['is_etf_feeder'] or manual_etf) and etf_code
IsFeederCase(manual, info) ==
    (info.is_etf_feeder \/ Truthy(manual)) /\ Truthy(ChooseEtfCode(manual, info))

\* the market-qualified ETF identifier
EtfFull(code) ==
    IF startswith(code, <<"5", "1">>) \/ startswith(code, <<"5", "6">>)
    THEN <<"s", "h">> \o code
    ELSE <<"s", "z">> \o code

\* etf_name or etf_info.get('name', ...)
NameOr(name, other) == IF Truthy(name) THEN name ELSE other

\* a plausible slip: the feeder estimate takes the ETF's change unweighted
FeederEstimateUnweighted(change_percent) == change_percent * 1000

\* etf_info['change_percent'] * 0.95
FeederEstimate(change_percent) == change_percent * FeederWeight

\* the result of the feeder shortcut
FeederResult(fund_code, info, code, name, etf_info) ==
    [kind |-> "estimate", fund_code |-> fund_code, fund_name |-> info.fund_name,
     quarter |-> "realtime", is_etf_feeder |-> TRUE, etf_code |-> code,
     etf_name |-> NameOr(name, etf_info.name),
     stock_details |-> <<[stock_code |-> code,
                          stock_name |-> NameOr(name, etf_info.name),
                          ratio |-> FeederRatio,
                          change_percent |-> etf_info.change_percent,
                          weighted_change |-> FeederEstimate(etf_info.change_percent),
                          status |-> "ok", market |-> "ETF"]>>,
     total_ratio |-> FeederRatio,
     estimated_change |-> FeederEstimate(etf_info.change_percent)]

\* sum(h['ratio'] for h in holdings)
RECURSIVE SumRatios(_)
SumRatios(hs) == IF hs = <<>> THEN 0 ELSE Head(hs).ratio + SumRatios(Tail(hs))

\* a plausible slip: the coverage test is skipped
LowCoverageNever(hs) == FALSE

\* total_holding_ratio < 5
LowCoverage(hs) == SumRatios(hs) < MinCoverage

\* a plausible slip: the percentage is not divided out of the weight
WeightedChangeOfPercentOnly(ratio, change_percent) == change_percent

\* h['ratio'] * stock_info['change_percent'] / 100, in 1/10000
WeightedChange(ratio, change_percent) == ratio * change_percent

\* a plausible slip: the retry is generalised to every market
NeedsRetryAnyMarket(stock_info, code) == stock_info.kind = "error"

\* 'error' in stock_info and code.startswith('hk')
NeedsRetry(stock_info, code) ==
    stock_info.kind = "error" /\ startswith(code, <<"h", "k">>)

\* the stock_details row of a quoted holding
OkDetail(h, stock_info) ==
    [stock_code |-> h.stock_code, stock_name |-> h.stock_name, ratio |-> h.ratio,
     change_percent |-> stock_info.change_percent,
     weighted_change |-> WeightedChange(h.ratio, stock_info.change_percent),
     status |-> "ok", market |-> stock_info.market]

\* a plausible slip: a failed holding is dropped from the list
MissingDetail(h) == <<>>

\* the stock_details row of a holding whose quote failed
ErrorDetail(h) ==
    <<[stock_code |-> h.stock_code, stock_name |-> h.stock_name, ratio |-> h.ratio,
       change_percent |-> 0, weighted_change |-> 0,
       status |-> "error", market |-> "?"]>>

\* the accumulators (total_weighted_change, total_ratio) the loop leaves
\* after holdings hs when the lookups end as qs: ok or not, and the quote's
\* change_percent
RECURSIVE LoopTotals(_, _)
LoopTotals(hs, qs) ==
    IF hs = <<>> THEN [change |-> 0, ratio |-> 0]
    ELSE LET h == hs[Len(hs)]
             q == qs[Len(hs)]
             before == LoopTotals(SubSeq(hs, 1, Len(hs) - 1), SubSeq(qs, 1, Len(hs) - 1))
         IN  IF q.ok
             THEN [change |-> before.change + WeightedChange(h.ratio, q.change_percent),
                   ratio |-> before.ratio + h.ratio]
             ELSE before

\* ------------------------------------------------ inputs of guess_market
\* most zeros appended to a stock code's leading characters
MaxTail == 4
\* the leading characters drawn, three at most
MaxLead == 3

GuessAlphabet == {"0", "1", "2", "3", "6", "a", "FF11"}

\* stock codes of 0 to MaxLead + MaxTail characters
GuessCodes ==
    {lead \o Zeros(n) : lead \in SeqsUpTo(GuessAlphabet, MaxLead), n \in 0..MaxTail}

\* ------------------------------------------------------ inputs of the engine
\* most rows an archive page lists
MaxRows == 2
\* default of calculate_fund_change's top, used by do_GET
DefaultTop == 10

Code110011 == <<"1", "1", "0", "0", "1", "1">>

\* fund identifiers a caller supplies: missing, well formed, too short, too
\* long, with a letter, six non-ASCII digits, padded with a space
FundIds ==
    {<<>>, Code110011, <<"1", "1", "0", "0", "1">>,
     <<"1", "1", "0", "0", "1", "1", "0">>, <<"1", "1", "0", "0", "1", "a">>,
     [k \in 1..6 |-> "FF11"], <<" ">> \o Code110011}

Etf510050 == <<"5", "1", "0", "0", "5", "0">>
Etf159915 == <<"1", "5", "9", "9", "1", "5">>

\* the caller's optional parameters: top (None when omitted) and etf
NoTop == [given |-> FALSE, v |-> 0]
GivenTop(n) == [given |-> TRUE, v |-> n]

Request(code, t, etf) == [code |-> code, top |-> t, etf |-> etf]

\* the requests drawn, each with the entry point it reaches: every identifier
\* without options at both, the well-formed identifier with both options at
\* do_GET and with one option or the other at main
Arrivals ==
    {<<e, Request(c, NoTop, None)>> : e \in {"http", "cli"}, c \in FundIds}
    \cup {<<"http", Request(Code110011, GivenTop(1), Etf159915)>>,
          <<"cli", Request(Code110011, GivenTop(1), None)>>,
          <<"cli", Request(Code110011, NoTop, Etf159915)>>}

Over(exc, title, name, name_marker, head_marker) ==
    [exc |-> exc, title |-> title, name |-> name,
     name_marker |-> name_marker, head_marker |-> head_marker]

OverFails == Over(TRUE, FALSE, "", FALSE, FALSE)
OverPlain == Over(FALSE, TRUE, "plain_fund", FALSE, FALSE)
OverFeeder == Over(FALSE, TRUE, "feeder_fund", TRUE, TRUE)
OverMarkerOnly == Over(FALSE, FALSE, "", FALSE, TRUE)

Link(exc, success, etf_code, etf_name) ==
    [exc |-> exc, success |-> success, etf_code |-> etf_code, etf_name |-> etf_name]

LinkResponses ==
    {Link(TRUE, FALSE, None, None),
     Link(FALSE, FALSE, None, None),
     Link(FALSE, TRUE, None, None),
     Link(FALSE, TRUE, Etf510050, <<"E">>)}

\* what the overview page and the mobile API answer to one get_fund_info
FundInfoResponses ==
    {<<OverFails, Link(TRUE, FALSE, None, None)>>,
     <<OverPlain, Link(FALSE, TRUE, Etf510050, <<"E">>)>>,
     <<OverMarkerOnly, Link(FALSE, TRUE, Etf510050, <<"E">>)>>}
    \cup {<<OverFeeder, link>> : link \in LinkResponses}

\* what the quote upstream answers to the engine's requests
EngineResponses == {RespMarker, RespUp, RespDown}
EtfResponses == {RespMarker, RespEtfUp}

Row(code, ratio) == [stock_code |-> code, stock_name |-> <<"n">>, ratio |-> ratio]

\* the rows an archive page may list: Shanghai 30.0%, Shenzhen 20.0%, a
\* 5-digit Hong Kong code 2.0%, a 6-digit code in the Hong Kong range 10.0%
RowUniverse ==
    {Row(<<"6", "0", "0", "5", "1", "9">>, 300),
     Row(<<"0", "0", "0", "0", "0", "1">>, 200),
     Row(<<"0", "0", "7", "0", "0">>, 20),
     Row(<<"0", "0", "1", "9", "7", "9">>, 100)}

\* rank is the row's position on the page
Ranked(rows) ==
    [k \in 1..Len(rows) |->
        [rank |-> k, stock_code |-> rows[k].stock_code,
         stock_name |-> rows[k].stock_name, ratio |-> rows[k].ratio]]

Page(exc, has_content, data_match, title, quarter, rows) ==
    [exc |-> exc, has_content |-> has_content, data_match |-> data_match,
     title |-> title, quarter |-> quarter, rows |-> rows]

\* a disclosure lists a stock once
Distinct(rows) == \A i, j \in 1..Len(rows) : rows[i] = rows[j] => i = j

HoldingsResponses ==
    {Page(TRUE, FALSE, FALSE, FALSE, FALSE, <<>>),
     Page(FALSE, FALSE, FALSE, FALSE, FALSE, <<>>),
     Page(FALSE, TRUE, FALSE, FALSE, FALSE, <<>>),
     Page(FALSE, TRUE, TRUE, FALSE, FALSE, Ranked(<<Row(<<"6", "0", "0", "5", "1", "9">>, 300)>>))}
    \cup {Page(FALSE, TRUE, TRUE, TRUE, TRUE, Ranked(rows)) :
              rows \in {r \in SeqsUpTo(RowUniverse, MaxRows) : Distinct(r)}}

\* ------------------------------------------------------------------- state
VARIABLES
    q_pc,       \* quote fetcher call: "start", "parsed" or "fetched"
    q_code,     \* the identifier passed in
    q_resp,     \* what the upstream answers
    q_impl,     \* the copy of the fetcher called: stock_api.py or api/index.py
    q_parsed,   \* what parse_stock_code returned
    q_quote,    \* what get_stock_realtime returned
    q_guess,    \* what guess_market returned
    entry,      \* the entry point serving the request: "http" or "cli"
    request,    \* the caller's parameters: code, top, etf
    pc,         \* where the request is
    fund_code,  \* calculate_fund_change's arguments ...
    top,
    manual_etf,
    fund_info,  \* ... and its locals
    etf_info,
    holdings,
    holdings_info,
    idx,        \* the holding the loop is at
    stock_info,
    stock_details,
    total_weighted_change,
    total_ratio,
    result,     \* what calculate_fund_change returned
    out,        \* what the entry point answers
    log         \* the calls and upstream requests made and how they ended, in order

qvars == <<q_pc, q_code, q_resp, q_impl, q_parsed, q_quote, q_guess>>
locals == <<fund_info, etf_info, holdings, holdings_info, idx, stock_info, stock_details, total_weighted_change, total_ratio>>
evars == <<entry, request, pc, fund_code, top, manual_etf, locals, result, out, log>>
vars == <<qvars, evars>>

NotParsed == [raised |-> "not_called", market |-> "", symbol |-> <<>>]
NotFetched == [kind |-> "not_called", error |-> ""]
NotGuessed == <<"not_called">>
NoResult == [kind |-> "none"]
NoFundInfo ==
    [fund_code |-> <<>>, fund_name |-> "", is_etf_feeder |-> FALSE,
     etf_code |-> None, etf_name |-> None]

\* no quote fetcher call is under way
QIdle ==
    /\ q_pc = "idle"
    /\ q_code = <<>>
    /\ q_resp = RespException
    /\ q_impl = "stock_api"
    /\ q_parsed = NotParsed
    /\ q_quote = NotFetched
    /\ q_guess = NotGuessed

\* the locals of a call that has not started
FreshLocals ==
    /\ fund_info = NoFundInfo
    /\ etf_info = NotFetched
    /\ holdings = <<>>
    /\ holdings_info = NoResult
    /\ idx = 0
    /\ stock_info = NotFetched
    /\ stock_details = <<>>
    /\ total_weighted_change = 0
    /\ total_ratio = 0

\* no request is under way
EIdle ==
    /\ entry = "none"
    /\ request = [code |-> <<>>, top |-> NoTop, etf |-> None]
    /\ pc = "idle"
    /\ fund_code = <<>>
    /\ top = 0
    /\ manual_etf = None
    /\ FreshLocals
    /\ result = NoResult
    /\ out = NoResult
    /\ log = <<>>

\* -------------------------------------------- the quote fetcher, called alone
QInit ==
    /\ q_pc = "start"
    /\ \/ q_code \in Codes /\ q_resp \in {RespException, RespUp} /\ q_impl = "stock_api"
       \/ q_code \in RouteCodes /\ q_resp \in Responses /\ q_impl \in Impls
    /\ q_parsed = NotParsed
    /\ q_quote = NotFetched
    /\ q_guess = NotGuessed
    /\ EIdle

\* a caller classifies the identifier
CallParseStockCode ==
    /\ q_pc = "start"
    /\ q_parsed' = parse_stock_code(q_code)
    /\ q_pc' = "parsed"
    /\ UNCHANGED <<q_code, q_resp, q_impl, q_quote, q_guess, evars>>

\* a caller asks for the identifier's quote
CallGetStockRealtime ==
    /\ q_pc = "start"
    /\ q_quote' = get_stock_realtime(q_code, q_resp, q_impl)
    /\ q_pc' = "fetched"
    /\ UNCHANGED <<q_code, q_resp, q_impl, q_parsed, q_guess, evars>>

QNext == CallParseStockCode \/ CallGetStockRealtime

SpecQuote == QInit /\ [][QNext]_vars

\* ----------------------------------------------- guess_market, called alone
GInit ==
    /\ q_pc = "start"
    /\ q_code \in GuessCodes
    /\ q_resp = RespException
    /\ q_impl = "stock_api"
    /\ q_parsed = NotParsed
    /\ q_quote = NotFetched
    /\ q_guess = NotGuessed
    /\ EIdle

\* a caller asks for the stock code's market-qualified identifier
CallGuessMarket ==
    /\ q_pc = "start"
    /\ q_guess' = guess_market(q_code, <<"n">>)
    /\ q_pc' = "guessed"
    /\ UNCHANGED <<q_code, q_resp, q_impl, q_parsed, q_quote, evars>>

SpecGuess == GInit /\ [][CallGuessMarket]_vars

\* ------------------------------------------------------- the fund estimator
\* the copy of the fetcher an entry point runs
Impl(e) == IF e = "http" THEN "api" ELSE "stock_api"

Req(what) == [ev |-> "request", what |-> what, code |-> <<>>, idx |-> 0]
Call(what, code, k) == [ev |-> "call", what |-> what, code |-> code, idx |-> k]

\* how a call or a request ended: "raise", "error", "quote"
Ended(what, code, k, how) ==
    [ev |-> "ended", what |-> what, code |-> code, idx |-> k, how |-> how]

\* a plausible slip: the fetcher repeats its upstream request
QuoteEventsRetried(what, code, k) ==
    <<Call(what, code, k)>>
        \o (IF SendsRequest(code) THEN <<Req("quote"), Req("quote")>> ELSE <<>>)

\* what one get_stock_realtime(code) adds to the log
QuoteEvents(what, code, k) ==
    <<Call(what, code, k)>> \o (IF SendsRequest(code) THEN <<Req("quote")>> ELSE <<>>)

Init ==
    /\ QIdle
    /\ \E arrival \in Arrivals : entry = arrival[1] /\ request = arrival[2]
    /\ pc = "received"
    /\ fund_code = <<>>
    /\ top = 0
    /\ manual_etf = None
    /\ FreshLocals
    /\ result = NoResult
    /\ out = NoResult
    /\ log = <<>>

\* not code or not code.isdigit() or len(code) != 6
RejectedByHttp(code) == code = <<>> \/ ~isdigit(code) \/ Len(code) # 6

\* not code.isdigit() or len(code) != 6, on args.code.strip()
RejectedByCli(code) == ~isdigit(strip(code)) \/ Len(strip(code)) # 6

\* calculate_fund_change is entered with these arguments
Enter(code, t, etf) ==
    /\ pc' = "fund_info"
    /\ fund_code' = code
    /\ top' = t
    /\ manual_etf' = etf
    /\ log' = log \o <<Call("engine", code, 0)>>
    /\ UNCHANGED <<result, out>>

\* the entry point answers without calling the engine
Reject(payload) ==
    /\ pc' = "done"
    /\ out' = payload
    /\ UNCHANGED <<fund_code, top, manual_etf, result, log>>

\* handler.do_GET up to its call of calculate_fund_change(code)
DoGet ==
    /\ pc = "received"
    /\ entry = "http"
    /\ IF RejectedByHttp(request.code)
       THEN Reject(Error("invalid_fund_code"))
       ELSE Enter(request.code, DefaultTop, None)
    /\ UNCHANGED <<qvars, entry, request, locals>>

\* main up to its call of calculate_fund_change(code, args.top, args.etf)
Main ==
    /\ pc = "received"
    /\ entry = "cli"
    /\ IF RejectedByCli(request.code)
       THEN Reject(Error("invalid_fund_code"))
       ELSE Enter(strip(request.code), request.top.v, request.etf)
    /\ UNCHANGED <<qvars, entry, request, locals>>

\* calculate_fund_change returns value r to the entry point, which answers it
Return(r) ==
    /\ result' = r
    /\ out' = r
    /\ pc' = "done"

\* an exception leaves calculate_fund_change: do_GET answers an error
\* payload, main ends with the exception
Unwind(e) ==
    /\ result' = Raise(e)
    /\ out' = IF entry = "http" THEN Error("exception") ELSE Raise(e)
    /\ pc' = "done"

\* a plausible slip: get_fund_info lets the overview request's failure
\* propagate, and the call ends with it
ResolveFundInfoAborts ==
    /\ pc = "fund_info"
    /\ \E answer \in FundInfoResponses :
          LET over == answer[1]
              link == answer[2]
          IN  /\ log' = log \o <<Req("overview")>>
                            \o (IF over.exc THEN <<Ended("overview", <<>>, 0, "raise")>>
                                ELSE <<>>)
                            \o (IF AsksLinkage(over) THEN <<Req("linkage")>> ELSE <<>>)
              /\ IF over.exc
                 THEN Unwind("overview_failed") /\ UNCHANGED fund_info
                 ELSE /\ fund_info' = get_fund_info(fund_code, over, link)
                      /\ pc' = "feeder"
                      /\ UNCHANGED <<result, out>>
    /\ UNCHANGED <<qvars, entry, request, fund_code, top, manual_etf>>
    /\ UNCHANGED <<etf_info, holdings, holdings_info, idx, stock_info>>
    /\ UNCHANGED <<stock_details, total_weighted_change, total_ratio>>

\* fund_info = get_fund_info(fund_code)
ResolveFundInfo ==
    /\ pc = "fund_info"
    /\ \E answer \in FundInfoResponses :
          LET over == answer[1]
              link == answer[2]
          IN  /\ fund_info' = get_fund_info(fund_code, over, link)
              /\ log' = log \o <<Req("overview")>>
                            \o (IF over.exc THEN <<Ended("overview", <<>>, 0, "raise")>>
                                ELSE <<>>)
                            \o (IF AsksLinkage(over) THEN <<Req("linkage")>> ELSE <<>>)
    /\ pc' = "feeder"
    /\ UNCHANGED <<qvars, entry, request, fund_code, top, manual_etf, result, out>>
    /\ UNCHANGED <<etf_info, holdings, holdings_info, idx, stock_info>>
    /\ UNCHANGED <<stock_details, total_weighted_change, total_ratio>>

\* the feeder branch: the ETF is quoted; a quote ends the call, an error
\* falls through to the holdings
FeederShortcut ==
    /\ pc = "feeder"
    /\ IsFeederCase(manual_etf, fund_info)
    /\ \E resp \in EtfResponses :
          LET etf_code == ChooseEtfCode(manual_etf, fund_info)
              answer == get_stock_realtime(EtfFull(etf_code), resp, Impl(entry))
          IN  /\ log' = log \o QuoteEvents("etf", EtfFull(etf_code), 0)
                            \o <<Ended("etf", EtfFull(etf_code), 0, answer.kind)>>
              /\ IF answer.kind = "raise"
                 THEN Unwind(answer.error) /\ UNCHANGED etf_info
                 ELSE /\ etf_info' = answer
                      /\ IF answer.kind = "quote"
                         THEN Return(FeederResult(fund_code, fund_info, etf_code,
                                                  fund_info.etf_name, answer))
                         ELSE pc' = "holdings" /\ UNCHANGED <<result, out>>
    /\ UNCHANGED <<qvars, entry, request, fund_code, top, manual_etf, fund_info>>
    /\ UNCHANGED <<holdings, holdings_info, idx, stock_info>>
    /\ UNCHANGED <<stock_details, total_weighted_change, total_ratio>>

\* the feeder branch is not taken
NoFeeder ==
    /\ pc = "feeder"
    /\ ~IsFeederCase(manual_etf, fund_info)
    /\ pc' = "holdings"
    /\ UNCHANGED <<qvars, entry, request, fund_code, top, manual_etf, locals, result, out, log>>

LowCoverageError(hs) ==
    [kind |-> "error", error |-> "low_coverage", ratio |-> SumRatios(hs)]

\* holdings_info = get_fund_holdings(fund_code, top), its error returned
\* unchanged, then the coverage test
ResolveHoldings ==
    /\ pc = "holdings"
    /\ \E page \in HoldingsResponses :
          LET info == get_fund_holdings(fund_code, top, page)
          IN  /\ log' = log \o <<Req("holdings")>>
              /\ holdings_info' = info
              /\ IF info.kind = "error"
                 THEN /\ Return(info)
                      /\ UNCHANGED <<holdings, idx>>
                 ELSE /\ holdings' = info.holdings
                      /\ IF LowCoverage(info.holdings)
                         THEN Return(LowCoverageError(info.holdings)) /\ UNCHANGED idx
                         ELSE pc' = "loop" /\ idx' = 1 /\ UNCHANGED <<result, out>>
    /\ UNCHANGED <<qvars, entry, request, fund_code, top, manual_etf, fund_info>>
    /\ UNCHANGED <<etf_info, stock_info, stock_details, total_weighted_change, total_ratio>>

\* one pass of 'for h in holdings': the quote, the Hong Kong retry, the row
QuoteHolding ==
    /\ pc = "loop"
    /\ idx <= Len(holdings)
    /\ \E r1 \in EngineResponses, r2 \in EngineResponses :
          LET h == holdings[idx]
              code == guess_market(h.stock_code, h.stock_name)
              first == get_stock_realtime(code, r1, Impl(entry))
              retry == NeedsRetry(first, code)
              answer == IF retry
                        THEN get_stock_realtime(h.stock_code, r2, Impl(entry))
                        ELSE first
          IN  /\ log' = log \o QuoteEvents("holding", code, idx)
                            \o <<Ended("holding", code, idx, first.kind)>>
                            \o (IF retry
                                THEN QuoteEvents("holding", h.stock_code, idx)
                                     \o <<Ended("holding", h.stock_code, idx, answer.kind)>>
                                ELSE <<>>)
              /\ IF answer.kind = "raise"
                 THEN /\ Unwind(answer.error)
                      /\ UNCHANGED <<idx, stock_info, stock_details>>
                      /\ UNCHANGED <<total_weighted_change, total_ratio>>
                 ELSE /\ stock_info' = answer
                      /\ idx' = idx + 1
                      /\ UNCHANGED <<pc, result, out>>
                      /\ IF answer.kind = "quote"
                         THEN /\ total_weighted_change' = total_weighted_change
                                     + WeightedChange(h.ratio, answer.change_percent)
                              /\ total_ratio' = total_ratio + h.ratio
                              /\ stock_details' = Append(stock_details, OkDetail(h, answer))
                         ELSE /\ stock_details' = stock_details \o ErrorDetail(h)
                              /\ UNCHANGED <<total_weighted_change, total_ratio>>
    /\ UNCHANGED <<qvars, entry, request, fund_code, top, manual_etf>>
    /\ UNCHANGED <<fund_info, etf_info, holdings, holdings_info>>

\* the holdings are exhausted: the aggregate is returned
ReturnEstimate ==
    /\ pc = "loop"
    /\ idx > Len(holdings)
    /\ Return([kind |-> "estimate", fund_code |-> fund_code,
               fund_name |-> holdings_info.fund_name,
               quarter |-> holdings_info.quarter, is_etf_feeder |-> FALSE,
               stock_details |-> stock_details, total_ratio |-> total_ratio,
               estimated_change |-> total_weighted_change])
    /\ UNCHANGED <<qvars, entry, request, fund_code, top, manual_etf, locals, log>>

Next ==
    \/ DoGet
    \/ Main
    \/ ResolveFundInfo
    \/ FeederShortcut
    \/ NoFeeder
    \/ ResolveHoldings
    \/ QuoteHolding
    \/ ReturnEstimate

Spec == Init /\ [][Next]_vars

\* ------------------------------------------------- claims: the quote fetcher
Fetched == q_pc = "fetched" /\ q_quote.kind = "quote"
Parsed == q_pc = "parsed"

\* C5 as stated: in every market, including US, a returned quote whose
\* yesterday_close is 0 has change_percent 0.
C5_ZeroCloseZeroPercentAllMarkets ==
    (Fetched /\ q_quote.yesterday_close = 0) => q_quote.change_percent = 0

\* C5 amended: an A-share or Hong Kong quote whose yesterday_close is 0 has
\* change_percent 0; a US quote carries the upstream's own percentage
\* (field 3, 0 when empty) whatever its yesterday_close.
C5_ZeroCloseZeroPercent ==
    Fetched =>
        /\ (q_quote.market \in {"A", "ETF", "HK"} /\ q_quote.yesterday_close = 0)
               => q_quote.change_percent = 0
        /\ q_quote.market = "US"
               => q_quote.change_percent = FloatOrZero(q_resp.info, 3)

\* C5 witness: a Hong Kong quote with no close and a non-zero price
C5_Witness ==
    /\ Fetched
    /\ q_quote.market = "HK"
    /\ q_quote.yesterday_close = 0
    /\ q_quote.current_price # 0

\* C6 as stated: parse_stock_code returns a pair for every input string,
\* the empty and the all-whitespace strings included.
C6_ParseIsTotal == Parsed => q_parsed.raised = "none"

\* the claims' own reading of "all-digit": only decimal digits, at least one
ClaimAllDigits(s) ==
    s # <<>> /\ \A i \in 1..Len(s) : s[i] \in AsciiDigits \cup UnicodeDigits

\* C7: an all-digit identifier is SH when it has 6 digits and starts with
\* '6', SZ for any other 6 digits, HK for 5 digits, each time with the input
\* digits as the symbol.
C7_DigitRule ==
    (Parsed /\ ClaimAllDigits(q_code)) =>
        /\ (Len(q_code) = 6 /\ q_code[1] = "6") => q_parsed = Pair("SH", q_code)
        /\ (Len(q_code) = 6 /\ q_code[1] # "6") => q_parsed = Pair("SZ", q_code)
        /\ Len(q_code) = 5 => q_parsed = Pair("HK", q_code)

\* C7 witness: a 6-digit identifier starting with '6' was classified
C7_Witness ==
    /\ Parsed
    /\ ClaimAllDigits(q_code)
    /\ Len(q_code) = 6
    /\ q_code[1] = "6"
    /\ q_parsed.market = "SH"

ClaimPrefixes == {<<"H", "K">>, <<"U", "S">>, <<"S", "H">>, <<"S", "Z">>}
ClaimMarketOf(p) == IF p = <<"H", "K">> THEN "HK"
                    ELSE IF p = <<"U", "S">> THEN "US"
                    ELSE IF p = <<"S", "H">> THEN "SH" ELSE "SZ"
ClaimHasPrefix(s) == Len(s) >= 2 /\ SubSeq(s, 1, 2) \in ClaimPrefixes
ClaimNoLowercase(s) == \A i \in 1..Len(s) : s[i] \notin LowerLetters

\* left-padding with zeros to 5 characters
ClaimLeftPad(s) == IF Len(s) >= 5 THEN s ELSE [i \in 1..(5 - Len(s)) |-> "0"] \o s

\* zero-filling to 5 characters: the zeros go after a leading sign
ClaimZeroFill(s) ==
    IF Len(s) >= 5 THEN s
    ELSE IF s # <<>> /\ s[1] \in {"+", "-"}
         THEN <<s[1]>> \o [i \in 1..(5 - Len(s)) |-> "0"] \o Tail(s)
         ELSE [i \in 1..(5 - Len(s)) |-> "0"] \o s

\* C8 as stated: an identifier starting with HK, US, SH or SZ gets that
\* market and the characters after the prefix as its symbol, unchanged but
\* for the left-padding of a Hong Kong symbol, and no lowercase letter.
C8_PrefixKeepsRestUnchanged ==
    (Parsed /\ ClaimHasPrefix(q_code)) =>
        LET rest == SubSeq(q_code, 3, Len(q_code))
            market == ClaimMarketOf(SubSeq(q_code, 1, 2))
        IN  /\ q_parsed.raised = "none"
            /\ q_parsed.market = market
            /\ q_parsed.symbol = (IF market = "HK" THEN ClaimLeftPad(rest) ELSE rest)
            /\ ClaimNoLowercase(q_parsed.symbol)

\* C8 amended: when the identifier, stripped of surrounding whitespace and
\* upper-cased, starts with HK, US, SH or SZ, the market is the prefix's and
\* the symbol is the rest of that stripped, upper-cased identifier, a Hong
\* Kong symbol zero-filled to 5 characters (zeros after a leading sign); the
\* prefix rule wins over the digit and letter rules and the symbol holds no
\* lowercase ASCII letter.
C8_PrefixRule ==
    (Parsed /\ ClaimHasPrefix(upper(strip(q_code)))) =>
        LET norm == upper(strip(q_code))
            rest == SubSeq(norm, 3, Len(norm))
            market == ClaimMarketOf(SubSeq(norm, 1, 2))
        IN  /\ q_parsed.raised = "none"
            /\ q_parsed.market = market
            /\ q_parsed.symbol = (IF market = "HK" THEN ClaimZeroFill(rest) ELSE rest)
            /\ ClaimNoLowercase(q_parsed.symbol)

\* C8 witness: a lower-case hk identifier with a short body was padded
C8_Witness ==
    /\ Parsed
    /\ q_code = <<"h", "k", "6">>
    /\ q_parsed = Pair("HK", <<"0", "0", "0", "0", "6">>)

\* C9 as stated: get_stock_realtime returns a quote record or an error
\* value for every identifier and every upstream answer.
C9_FetchNeverRaises == q_pc = "fetched" => q_quote.kind \in {"quote", "error"}

\* ------------------------------------------------------ claims: the engine
\* get_stock_realtime was called for a holding / for the ETF
HoldingCalls == {k \in 1..Len(log) : log[k].ev = "call" /\ log[k].what = "holding"}
EtfCalls == {k \in 1..Len(log) : log[k].ev = "call" /\ log[k].what = "etf"}
EngineCalls == {k \in 1..Len(log) : log[k].ev = "call" /\ log[k].what = "engine"}

\* the holdings fetch succeeded in this call
HoldingsFetched == holdings_info.kind = "holdings"

RECURSIVE ClaimSumOfRatios(_)
ClaimSumOfRatios(hs) ==
    IF hs = <<>> THEN 0 ELSE hs[1].ratio + ClaimSumOfRatios(Tail(hs))

\* C1: when the holdings fetch succeeds with ratios summing below 5, the
\* call returns an error value and get_stock_realtime is called for no holding.
C1_LowCoverageRejected ==
    (HoldingsFetched /\ ClaimSumOfRatios(holdings) < 50) =>
        /\ pc = "done"
        /\ result.kind = "error"
        /\ HoldingCalls = {}
        /\ stock_details = <<>>

\* C1 witness: a single holding of 2.0% was fetched and rejected
C1_Witness ==
    /\ HoldingsFetched
    /\ Len(holdings) = 1
    /\ ClaimSumOfRatios(holdings) = 20
    /\ result.kind = "error"

\* the feeder case as the claim words it, and the ETF code it names
ClaimFeederCase ==
    /\ pc \notin {"received", "fund_info"}
    /\ fund_info.is_etf_feeder \/ (manual_etf # None /\ manual_etf # <<>>)
    /\ \/ manual_etf # None /\ manual_etf # <<>>
       \/ fund_info.etf_code # None /\ fund_info.etf_code # <<>>
ClaimEtfCode ==
    IF manual_etf # None /\ manual_etf # <<>> THEN manual_etf ELSE fund_info.etf_code

\* C2: in the feeder case with a known ETF code the ETF is quoted, and a
\* quote without error ends the call with total_ratio 95.0, estimated_change
\* change_percent * 0.95 and one stock_details row of ratio 95.0, status ok
\* (1.2 gives 1.14).
C2_FeederShortcut ==
    /\ (ClaimFeederCase /\ pc # "feeder") =>
           /\ etf_info.kind \in {"quote", "error"}
           /\ \E k \in EtfCalls : DropFirst(log[k].code, 2) = ClaimEtfCode
    /\ (ClaimFeederCase /\ etf_info.kind = "quote") =>
           /\ pc = "done"
           /\ result.kind = "estimate"
           /\ result.etf_code = ClaimEtfCode
           /\ result.total_ratio = 950
           /\ 100 * result.estimated_change = 95 * 1000 * etf_info.change_percent
           /\ etf_info.change_percent = 12 => result.estimated_change = 11400
           /\ Len(result.stock_details) = 1
           /\ result.stock_details[1].ratio = 950
           /\ result.stock_details[1].status = "ok"

\* C2 witness: a detected feeder whose ETF rose 1.2% was estimated
C2_Witness ==
    /\ pc = "done"
    /\ manual_etf = None
    /\ fund_info.is_etf_feeder
    /\ etf_info.kind = "quote"
    /\ etf_info.change_percent = 12
    /\ result.kind = "estimate"

\* the holdings path: the loop over the holdings was entered
OnHoldingsPath == HoldingsFetched /\ idx >= 1

\* the rows of the holdings quoted so far whose lookup succeeded
OkRows == {k \in 1..Len(stock_details) : stock_details[k].status = "ok"}

RECURSIVE ClaimSum(_, _)
ClaimSum(f, S) ==
    IF S = {} THEN 0
    ELSE LET k == CHOOSE x \in S : TRUE IN f[k] + ClaimSum(f, S \ {k})

\* ratio * change_percent / 100 of row k, in 1/10000
ClaimContribution == [k \in 1..Len(stock_details) |->
                          holdings[k].ratio * stock_details[k].change_percent]
ClaimRatio == [k \in 1..Len(stock_details) |-> holdings[k].ratio]

\* the last lookup decides the last row: ok with the quote's change_percent,
\* or error
LastRowFollowsLookup ==
    (OnHoldingsPath /\ idx >= 2) =>
        /\ Len(stock_details) = idx - 1
        /\ stock_details[idx - 1].stock_code = holdings[idx - 1].stock_code
        /\ stock_details[idx - 1].ratio = holdings[idx - 1].ratio
        /\ stock_info.kind = "quote" =>
               /\ stock_details[idx - 1].status = "ok"
               /\ stock_details[idx - 1].change_percent = stock_info.change_percent
        /\ stock_info.kind = "error" => stock_details[idx - 1].status = "error"

\* C3: on the holdings path the returned estimated_change is the sum of
\* ratio * change_percent / 100 over exactly the holdings whose lookup
\* succeeded, and total_ratio the sum of their ratios (30 and 20 with 2.0
\* and -1.0 give 0.4 and 50.0).
C3_WeightedSum ==
    /\ LastRowFollowsLookup
    /\ OnHoldingsPath =>
           /\ total_weighted_change = ClaimSum(ClaimContribution, OkRows)
           /\ total_ratio = ClaimSum(ClaimRatio, OkRows)
    /\ (OnHoldingsPath /\ pc = "done") =>
           /\ result.kind = "estimate"
           /\ Len(stock_details) = Len(holdings)
           /\ result.estimated_change = ClaimSum(ClaimContribution, OkRows)
           /\ result.total_ratio = ClaimSum(ClaimRatio, OkRows)

\* C3 witness: 30.0% at +2.0% and 20.0% at -1.0% gave 0.4 and 50.0
C3_Witness ==
    /\ OnHoldingsPath
    /\ pc = "done"
    /\ Len(holdings) = 2
    /\ holdings[1].ratio = 300 /\ stock_details[1].change_percent = 20
    /\ holdings[2].ratio = 200 /\ stock_details[2].change_percent = -10
    /\ result.estimated_change = 4000
    /\ result.total_ratio = 500

\* the list without its k-th holding
ClaimWithout(hs, k) == SubSeq(hs, 1, k - 1) \o SubSeq(hs, k + 1, Len(hs))

\* the call would still estimate were the k-th holding absent
ClaimEstimatesWithout(k) ==
    /\ ClaimWithout(holdings, k) # <<>>
    /\ ClaimSumOfRatios(ClaimWithout(holdings, k)) >= 50

\* the rows whose lookup ended in an error
ErrorRows == {k \in 1..Len(stock_details) : stock_details[k].status = "error"}

\* how each lookup of the call ended
ClaimOutcomes ==
    [k \in 1..Len(stock_details) |->
        [ok |-> stock_details[k].status = "ok",
         change_percent |-> stock_details[k].change_percent]]

\* the failed holding k has its row, with nothing in it, and every holding
\* was quoted
ClaimFailedRowKept(k) ==
    /\ result.kind = "estimate"
    /\ Len(result.stock_details) = Len(holdings)
    /\ result.stock_details[k].stock_code = holdings[k].stock_code
    /\ result.stock_details[k].change_percent = 0
    /\ result.stock_details[k].weighted_change = 0
    /\ \A j \in 1..Len(holdings) : \E c \in HoldingCalls : log[c].idx = j

\* the sums returned are those the loop leaves on the list without holding k
ClaimSameSumsWithout(k) ==
    LET totals == LoopTotals(ClaimWithout(holdings, k), ClaimWithout(ClaimOutcomes, k))
    IN  /\ result.estimated_change = totals.change
        /\ result.total_ratio = totals.ratio

\* C4 as stated: a holding whose lookup ends in an error has an error row
\* with change_percent 0 and weighted_change 0, the rest is still quoted, and
\* the call returns the estimate it returns when that holding is absent.
C4_FailedHoldingAsIfAbsent ==
    (OnHoldingsPath /\ pc = "done") =>
        \A k \in ErrorRows :
            /\ ClaimFailedRowKept(k)
            /\ ClaimEstimatesWithout(k)
            /\ ClaimSameSumsWithout(k)

\* C4 amended: the same, the estimate being that of the call without the
\* holding whenever that call estimates at all, which it does when the other
\* holdings are not none and sum to at least 5; either way the failed holding
\* adds nothing to the sums.
C4_FailedHoldingIsolated ==
    /\ LastRowFollowsLookup
    /\ (OnHoldingsPath /\ pc = "done") =>
           \A k \in ErrorRows : ClaimFailedRowKept(k) /\ ClaimSameSumsWithout(k)

\* C4 witness: the first holding failed, the second was quoted and counted
C4_Witness ==
    /\ OnHoldingsPath
    /\ pc = "done"
    /\ Len(holdings) = 2
    /\ stock_details[1].status = "error"
    /\ stock_details[2].status = "ok"
    /\ result.estimated_change # 0
    /\ result.total_ratio = holdings[2].ratio

\* exactly 6 ASCII digits
ClaimSixAsciiDigits(s) == Len(s) = 6 /\ \A k \in 1..6 : s[k] \in AsciiDigits

\* C10 as stated: the entry point calls calculate_fund_change only for an
\* identifier of exactly 6 ASCII digits, and answers the validation error
\* without any call or request for every other identifier.
C10_OnlySixAsciiDigitsReachEngine ==
    pc # "received" =>
        IF ClaimSixAsciiDigits(request.code)
        THEN EngineCalls # {}
        ELSE out = Error("invalid_fund_code") /\ log = <<>>

\* C11 as stated: at both entry points the engine runs with the caller's top
\* (0 when top is omitted, meaning every disclosed holding) and the caller's
\* etf.
C11_ParametersForwarded ==
    EngineCalls # {} =>
        /\ top = (IF request.top.given THEN request.top.v ELSE 0)
        /\ manual_etf = request.etf

\* the call returned the low-coverage rejection
LowCoverageReturned ==
    pc = "done" /\ result.kind = "error" /\ result.error = "low_coverage"

\* C12 as stated: whenever the low-coverage rejection is returned,
\* get_stock_realtime was called zero times in that invocation, whatever the
\* fund metadata and the manual override.
C12_LowCoverageZeroQuoteCalls ==
    LowCoverageReturned => (HoldingCalls = {} /\ EtfCalls = {})

\* C12 amended: whenever the low-coverage rejection is returned,
\* get_stock_realtime was called for no holding; it was called zero times
\* unless the fund is a feeder or has a manual override, with an ETF code
\* known, and then exactly once, for the ETF, and that call returned an error.
C12_LowCoverageNoHoldingQuoted ==
    LowCoverageReturned =>
        /\ HoldingCalls = {}
        /\ IF ClaimFeederCase
           THEN Cardinality(EtfCalls) = 1 /\ etf_info.kind = "error"
           ELSE EtfCalls = {} /\ etf_info.kind = "not_called"

\* C12 witness: a detected feeder's ETF quote failed and its holdings were
\* then rejected for low coverage
C12_Witness ==
    /\ LowCoverageReturned
    /\ fund_info.is_etf_feeder
    /\ Cardinality(EtfCalls) = 1
    /\ result.ratio = 20

\* the fund-overview request of this call failed in transport
OverviewFailed ==
    \E k \in 1..Len(log) :
        log[k].ev = "ended" /\ log[k].what = "overview" /\ log[k].how = "raise"

\* the upstream requests of one kind made so far
ClaimRequests(what) ==
    {k \in 1..Len(log) : log[k].ev = "request" /\ log[k].what = what}

ClaimManualGiven == manual_etf # None /\ manual_etf # <<>>

\* C13: when the fund-overview request fails, get_fund_info returns the
\* placeholder (unknown fund, not a feeder, no ETF code) and nothing is
\* raised; the call goes on: with a manual override the ETF is quoted and a
\* quote gives the feeder result, otherwise no ETF is quoted; and unless the
\* feeder result was returned the holdings are requested.
C13_FundInfoFailureDegrades ==
    OverviewFailed =>
        /\ fund_info.fund_code = fund_code
        /\ fund_info.fund_name = "unknown_fund"
        /\ fund_info.is_etf_feeder = FALSE
        /\ fund_info.etf_code = None
        /\ fund_info.etf_name = None
        /\ ClaimRequests("linkage") = {}
        /\ result.kind # "raise"
        /\ out.kind # "raise"
        /\ pc # "feeder" =>
               IF ClaimManualGiven
               THEN /\ Cardinality(EtfCalls) = 1
                    /\ etf_info.kind = "quote" =>
                           (pc = "done" /\ result.kind = "estimate" /\ result.is_etf_feeder)
                    /\ etf_info.kind = "error" => pc \in {"holdings", "loop", "done"}
               ELSE EtfCalls = {}
        /\ (pc \in {"loop", "done"} /\ etf_info.kind # "quote") =>
               ClaimRequests("holdings") # {}

\* C13 witness: the overview request failed and the holdings path still
\* returned an estimate with quoted holdings
C13_Witness ==
    /\ OverviewFailed
    /\ pc = "done"
    /\ result.kind = "estimate"
    /\ ~result.is_etf_feeder
    /\ result.total_ratio > 0
    /\ result.fund_name = "archive_name"

\* the call returned the feeder short-circuit result
ClaimFeederResult ==
    pc = "done" /\ result.kind = "estimate" /\ result.is_etf_feeder

\* calculate_fund_change is past its feeder branch
ClaimPastFeederBranch == EngineCalls # {} /\ pc \in {"holdings", "loop", "done"}

\* the error values get_fund_holdings returns
ClaimHoldingsErrors ==
    {"holdings_request_failed", "no_fund_data", "holdings_parse_failed", "no_holdings_found"}

\* C14: the ETF is quoted exactly when the fund is a feeder or has a manual
\* override and an ETF code is known, and the feeder short-circuit result is
\* returned exactly when that quote came back without error; in every other
\* case, a failed ETF quote included, the holdings are requested, once; and
\* when that request's result is an error, the same error value is returned
\* and no holding is quoted.
C14_FeederOrHoldings ==
    /\ ClaimPastFeederBranch =>
           /\ Cardinality(EtfCalls) = (IF ClaimFeederCase THEN 1 ELSE 0)
           /\ ClaimFeederResult <=> (ClaimFeederCase /\ etf_info.kind = "quote")
           /\ ClaimFeederResult => ClaimRequests("holdings") = {}
           /\ (pc \in {"loop", "done"} /\ ~ClaimFeederResult) =>
                  Cardinality(ClaimRequests("holdings")) = 1
    /\ holdings_info.kind = "error" =>
           /\ pc = "done"
           /\ holdings_info.error \in ClaimHoldingsErrors
           /\ result = holdings_info
           /\ out = holdings_info
           /\ HoldingCalls = {}
           /\ stock_details = <<>>

\* C14 witness: a detected feeder's ETF quote failed, the holdings request
\* failed too, and its error was returned
C14_Witness ==
    /\ fund_info.is_etf_feeder
    /\ etf_info.kind = "error"
    /\ holdings_info.kind = "error"
    /\ holdings_info.error = "holdings_request_failed"
    /\ result = holdings_info

\* the get_stock_realtime calls made for holding k, and how they ended
ClaimCallsOf(k) ==
    SelectSeq(log, LAMBDA x : x.ev = "call" /\ x.what = "holding" /\ x.idx = k)
ClaimEndsOf(k) ==
    SelectSeq(log, LAMBDA x : x.ev = "ended" /\ x.what = "holding" /\ x.idx = k)

\* the holdings the loop is done with
ClaimQuotedHoldings == IF OnHoldingsPath THEN 1..(idx - 1) ELSE {}

ClaimQualifiedAs(k, market) == ClaimCallsOf(k)[1].code = market \o holdings[k].stock_code

\* C15: every holding is fetched once or twice; twice exactly when its
\* first fetch used a Hong Kong-qualified code and returned an error; the
\* second fetch uses the bare stock code; the last fetch's outcome decides
\* between status ok and error; a holding qualified as Shanghai or Shenzhen
\* is fetched exactly once.
C15_HongKongRetryOnly ==
    \A k \in ClaimQuotedHoldings :
        LET calls == ClaimCallsOf(k)
            ends == ClaimEndsOf(k)
        IN  /\ Len(calls) \in {1, 2}
            /\ Len(ends) = Len(calls)
            /\ Len(calls) = 2 <=>
                   (ClaimQualifiedAs(k, <<"h", "k">>) /\ ends[1].how = "error")
            /\ Len(calls) = 2 => calls[2].code = holdings[k].stock_code
            /\ (ClaimQualifiedAs(k, <<"s", "h">>) \/ ClaimQualifiedAs(k, <<"s", "z">>))
                   => Len(calls) = 1
            /\ stock_details[k].status = "ok" <=> ends[Len(ends)].how = "quote"
            /\ stock_details[k].status = "error" <=> ends[Len(ends)].how = "error"

\* C15 witness: a 6-digit holding in the Hong Kong range failed as a Hong
\* Kong code, was fetched again by its bare code and was recorded as ok
C15_Witness ==
    \E k \in ClaimQuotedHoldings :
        /\ holdings[k].stock_code = <<"0", "0", "1", "9", "7", "9">>
        /\ Len(ClaimCallsOf(k)) = 2
        /\ ClaimEndsOf(k)[1].how = "error"
        /\ ClaimEndsOf(k)[2].how = "quote"
        /\ stock_details[k].status = "ok"
        /\ stock_details[k].market = "A"

\* ------------------------------------------------------ claims: guess_market
ClaimStarts(s, p) == Len(s) >= Len(p) /\ SubSeq(s, 1, Len(p)) = p

\* the market the claim assigns to a stock code: "hk", "sh", "sz", or ""
\* for a code it leaves unqualified
ClaimGuessedMarket(s) ==
    IF Len(s) = 5 THEN <<"h", "k">>
    ELSE IF Len(s) # 6 THEN <<>>
    ELSE IF /\ ClaimStarts(s, <<"0", "0">>)
            /\ s[3] \notin {"0", "2", "3"}
         THEN <<"h", "k">>
    ELSE IF s[1] = "6" THEN <<"s", "h">>
    ELSE <<"s", "z">>

\* C16: guess_market qualifies every 5-character code as Hong Kong, every
\* 6-character code starting with 00 but not 000, 002 or 003 as Hong Kong,
\* every 6-character code starting with 6 as Shanghai, every other
\* 6-character code as Shenzhen, and returns a code of any other length as
\* it is.
C16_GuessMarket ==
    q_pc = "guessed" => q_guess = ClaimGuessedMarket(q_code) \o q_code

\* C16 witness: 001000 was qualified as Hong Kong
C16_Witness ==
    /\ q_pc = "guessed"
    /\ q_code = <<"0", "0", "1", "0", "0", "0">>
    /\ q_guess = <<"h", "k", "0", "0", "1", "0", "0", "0">>

\* ------------------------------------------- claims: the requests of a call
\* the upstream requests made so far, as positions in the log
ClaimAllRequests == {k \in 1..Len(log) : log[k].ev = "request"}

\* the quote requests made for the ETF / for holding j: a quote request is
\* sent by the get_stock_realtime call before it in the log
ClaimQuoteRequests(what, j) ==
    {k \in ClaimRequests("quote") :
        k > 1 /\ log[k - 1].ev = "call" /\ log[k - 1].what = what /\ log[k - 1].idx = j}

\* the place of a request in the claimed order: overview, linkage, ETF
\* quote, holdings, then the holdings' quotes by list position
ClaimRank(k) ==
    IF log[k].what = "overview" THEN 1
    ELSE IF log[k].what = "linkage" THEN 2
    ELSE IF log[k].what = "holdings" THEN 4
    ELSE IF k > 1 /\ log[k - 1].what = "etf" THEN 3
    ELSE IF k > 1 THEN 4 + log[k - 1].idx
    ELSE 0

\* at most one request of each of the first four kinds, at most two per
\* holding, at most 4 + 2*N in all, in the claimed order
ClaimRequestBudget ==
    /\ Cardinality(ClaimRequests("overview")) <= 1
    /\ Cardinality(ClaimRequests("linkage")) <= 1
    /\ Cardinality(ClaimQuoteRequests("etf", 0)) <= 1
    /\ Cardinality(ClaimRequests("holdings")) <= 1
    /\ \A j \in 1..Len(holdings) : Cardinality(ClaimQuoteRequests("holding", j)) <= 2
    /\ \A k \in ClaimRequests("quote") :
           k \in ClaimQuoteRequests("etf", 0)
           \/ \E j \in 1..Len(holdings) : k \in ClaimQuoteRequests("holding", j)
    /\ Cardinality(ClaimAllRequests) <= 4 + 2 * Len(holdings)
    /\ \A k1, k2 \in ClaimAllRequests : k1 < k2 => ClaimRank(k1) <= ClaimRank(k2)
    /\ \A k \in ClaimAllRequests : ClaimRank(k) >= 1
    /\ pc = "loop" => \A j \in 1..Len(holdings) : ClaimCallsOf(j) # <<>> <=> j < idx

\* the steps a request can still take: one per stage before the loop, one
\* per holding left, one to return
ClaimStepsLeft ==
    CASE pc = "received" -> MaxRows + 6
      [] pc = "fund_info" -> MaxRows + 5
      [] pc = "feeder" -> MaxRows + 4
      [] pc = "holdings" -> MaxRows + 3
      [] pc = "loop" -> Len(holdings) - idx + 2
      [] pc = "done" -> 0

\* C17: a call makes at most one overview, one linkage, one ETF quote and
\* one holdings request and at most two quote requests per holding, at most
\* 4 + 2*N in all for N holdings, in that order and holding after holding;
\* and it terminates: every step takes it strictly closer to its return.
C17_BoundedRequests ==
    /\ [](ClaimRequestBudget /\ ClaimStepsLeft >= 0)
    /\ [][ClaimStepsLeft' < ClaimStepsLeft]_vars

\* C17 witness: a call with two holdings ended after 8 requests
C17_Witness ==
    /\ pc = "done"
    /\ Len(holdings) = 2
    /\ result.kind = "estimate"
    /\ Cardinality(ClaimAllRequests) = 8

====
